---- MODULE Spec2Model ----
(***************************************************************************)
(* Contract knowledge graph: the graph builder (02_build_graph.py), the    *)
(* embedding backfill and the retrieval service (contract_service.py).     *)
(*                                                                         *)
(* The Neo4j store is modelled as a property graph: one sequence of nodes  *)
(* per label and one sequence of relationships per type.  The position of  *)
(* a node in its sequence is its element id; nothing is ever deleted, so   *)
(* ids are stable.  Relationships carry the ids of their end nodes.        *)
(***************************************************************************)
EXTENDS Integers, Sequences, FiniteSets, TLC

\* ---------------------------------------------------------------- bounds
MaxBuilds     == 2      \* build statements executed in one behaviour
MaxRuns       == 3      \* backfill runs started in one behaviour
NumVectors    == 2      \* distinct vectors the embedding capability returns
MaxIndexRuns  == 2      \* calls of create_indices in one behaviour
NumFiles      == 3      \* file names the output directory can hold
MaxLoads      == 2      \* calls of load_contracts_from_json in one behaviour

\* ------------------------------------------------------- input universe
\* Contract ids of the records offered to the builder (enumerate(..., start=1)
\* in load_contracts_from_json).
ContractIds == {1, 2}

\* A few values of the schema's ClauseType enumeration (schema.py).
ClauseTypeNames == {"Insurance", "Non-Compete"}

\* Governing law / parties / scalar fields of three sample agreements.
AgreementSamples == 1..3

\* Two extractions with a field missing: their build statement fails.
MalformedSamples == {4, 5}

\* The value of a field that is null or absent in the JSON file.
None == "None"

SampleFields(v) ==
    CASE v = 1 -> [agreement_name |-> "MSA-001", agreement_type |-> "Service Agreement",
                   effective_date |-> "2020-01-01", expiration_date |-> "2021-01-01",
                   renewal_term |-> "1 year", notice |-> "30 days",
                   governing_law |-> [country |-> "USA", state |-> "NY",
                                      most_favored_country |-> "USA"],
                   parties |-> << [name |-> "Acme Corp", role |-> "Vendor",
                                   incorporation_country |-> "USA",
                                   incorporation_state |-> "DE"],
                                  [name |-> "Beta LLC", role |-> "Customer",
                                   incorporation_country |-> "USA",
                                   incorporation_state |-> "NY"] >>]
      [] v = 2 -> [agreement_name |-> "LIC-002", agreement_type |-> "License Agreement",
                   effective_date |-> "2022-06-30", expiration_date |-> "",
                   renewal_term |-> "", notice |-> "",
                   governing_law |-> [country |-> "UK", state |-> "",
                                      most_favored_country |-> "UK"],
                   parties |-> << [name |-> "Acme Corp", role |-> "Customer",
                                   incorporation_country |-> "USA",
                                   incorporation_state |-> "NY"],
                                  [name |-> "Beta LLC", role |-> "Vendor",
                                   incorporation_country |-> "UK",
                                   incorporation_state |-> ""] >>]
      [] v = 3 -> [agreement_name |-> "", agreement_type |-> "Other",
                   effective_date |-> "", expiration_date |-> "",
                   renewal_term |-> "", notice |-> "",
                   governing_law |-> [country |-> "USA", state |-> "CA",
                                      most_favored_country |-> ""],
                   parties |-> << >>]
      \* the second party has no name
      [] v = 4 -> [agreement_name |-> "NDA-004", agreement_type |-> "NDA",
                   effective_date |-> "2023-01-01", expiration_date |-> "",
                   renewal_term |-> "", notice |-> "",
                   governing_law |-> [country |-> "France", state |-> "",
                                      most_favored_country |-> ""],
                   parties |-> << [name |-> "Gamma SA", role |-> "Discloser",
                                   incorporation_country |-> "France",
                                   incorporation_state |-> ""],
                                  [name |-> None, role |-> "Recipient",
                                   incorporation_country |-> "USA",
                                   incorporation_state |-> "NY"] >>]
      \* the party has no incorporation country
      [] v = 5 -> [agreement_name |-> "SUP-005", agreement_type |-> "Supply Agreement",
                   effective_date |-> "", expiration_date |-> "",
                   renewal_term |-> "", notice |-> "",
                   governing_law |-> [country |-> "USA", state |-> "TX",
                                      most_favored_country |-> ""],
                   parties |-> << [name |-> "Delta Inc", role |-> "Supplier",
                                   incorporation_country |-> None,
                                   incorporation_state |-> None] >>]

Clause(t, e, xs) == [clause_type |-> t, exists |-> e, excerpts |-> xs]

\* A present clause beside an absent one, and a clause whose excerpt list
\* repeats one string.
InsuranceClauses ==
    << Clause("Insurance", TRUE, << "Vendor shall maintain insurance." >>),
       Clause("Non-Compete", FALSE, << "Vendor shall maintain insurance." >>) >>
NonCompeteClauses ==
    << Clause("Non-Compete", TRUE, << "No competing product.", "No competing product." >>) >>

\* Clause lists: none, only an absent clause, the two above, two present
\* clauses of the same type, a present clause without excerpts.
ClauseLists ==
    { << >>,
      << Clause("Insurance", FALSE, << >>) >>,
      InsuranceClauses,
      NonCompeteClauses,
      << Clause("Insurance", TRUE, << "Vendor shall maintain insurance." >>),
         Clause("Insurance", TRUE, << "No competing product." >>) >>,
      << Clause("Non-Compete", TRUE, << >>) >> }

\* The $data parameter of the build statement: {"agreement": {...}} with the
\* contract_id added by load_contracts_from_json.
Record(id, v, cl) ==
    LET s == SampleFields(v) IN
    [agreement |->
      [contract_id |-> id,
       agreement_name |-> s.agreement_name,
       agreement_type |-> s.agreement_type,
       effective_date |-> s.effective_date,
       expiration_date |-> s.expiration_date,
       renewal_term |-> s.renewal_term,
       Notice_period_to_Terminate_Renewal |-> s.notice,
       governing_law |-> s.governing_law,
       parties |-> s.parties,
       clauses |-> cl]]

Records == { Record(id, v, cl) : id \in ContractIds, v \in AgreementSamples,
                                 cl \in ClauseLists }

\* ------------------------------------------------------------ the graph
EmptyGraph ==
    [Agreement |-> << >>, Country |-> << >>, Organization |-> << >>,
     ContractClause |-> << >>, Excerpt |-> << >>, ClauseType |-> << >>,
     GOVERNED_BY_LAW |-> << >>, IS_PARTY_TO |-> << >>, INCORPORATED_IN |-> << >>,
     HAS_CLAUSE |-> << >>, HAS_EXCERPT |-> << >>, HAS_TYPE |-> << >>]

NodeLabels == {"Agreement", "Country", "Organization", "ContractClause",
               "Excerpt", "ClauseType"}
RelTypes   == {"GOVERNED_BY_LAW", "IS_PARTY_TO", "INCORPORATED_IN",
               "HAS_CLAUSE", "HAS_EXCERPT", "HAS_TYPE"}

\* A null property value (an Excerpt's embedding before the backfill).
Null == 0

Min(S) == CHOOSE x \in S : \A y \in S : x <= y

\* Ids of the nodes of a label whose key property has the given value.
AgreementIds(g, id)   == { i \in DOMAIN g.Agreement : g.Agreement[i].contract_id = id }
CountryIds(g, n)      == { i \in DOMAIN g.Country : g.Country[i].name = n }
OrganizationIds(g, n) == { i \in DOMAIN g.Organization : g.Organization[i].name = n }
ClauseTypeIds(g, n)   == { i \in DOMAIN g.ClauseType : g.ClauseType[i].name = n }

\* Positions of the relationships of a sequence between two given nodes.
RelIds(rels, s, d) == { i \in DOMAIN rels : rels[i].src = s /\ rels[i].dst = d }

\* ------------------------------------------------- CREATE_GRAPH_QUERY
\* The Agreement upsert with a plain SET in place of ON CREATE SET: a
\* matching Agreement takes the properties of the new record.
MergeAgreementOverwrite(g, a) ==
    LET node == [contract_id |-> a.contract_id,
                 name |-> a.agreement_name,
                 effective_date |-> a.effective_date,
                 expiration_date |-> a.expiration_date,
                 agreement_type |-> a.agreement_type,
                 renewal_term |-> a.renewal_term,
                 most_favored_country |-> a.governing_law.most_favored_country,
                 Notice_period_to_Terminate_Renewal |-> a.Notice_period_to_Terminate_Renewal]
    IN IF AgreementIds(g, a.contract_id) = {}
       THEN [g EXCEPT !.Agreement = Append(@, node)]
       ELSE [g EXCEPT !.Agreement =
               [i \in DOMAIN @ |-> IF i \in AgreementIds(g, a.contract_id)
                                   THEN node ELSE @[i]]]

\* Lines 37-45: MERGE (agreement:Agreement {contract_id: a.contract_id})
\* ON CREATE SET ...  An Agreement that matches is left as it is.
MergeAgreement(g, a) ==
    IF AgreementIds(g, a.contract_id) # {}
    THEN g
    ELSE [g EXCEPT !.Agreement = Append(@,
            [contract_id |-> a.contract_id,
             name |-> a.agreement_name,
             effective_date |-> a.effective_date,
             expiration_date |-> a.expiration_date,
             agreement_type |-> a.agreement_type,
             renewal_term |-> a.renewal_term,
             most_favored_country |-> a.governing_law.most_favored_country,
             Notice_period_to_Terminate_Renewal |-> a.Notice_period_to_Terminate_Renewal])]

\* MERGE (c:Country {name: n})
MergeCountry(g, n) ==
    IF CountryIds(g, n) # {} THEN g
    ELSE [g EXCEPT !.Country = Append(@, [name |-> n])]

\* CREATE in place of MERGE: a new Organization node whatever is there.
CreateOrganization(g, n) ==
    [g EXCEPT !.Organization = Append(@, [name |-> n])]

\* MERGE (p:Organization {name: n})
MergeOrganization(g, n) ==
    IF OrganizationIds(g, n) # {} THEN g
    ELSE [g EXCEPT !.Organization = Append(@, [name |-> n])]

\* MERGE (clType:ClauseType {name: n})
MergeClauseTypeNode(g, n) ==
    IF ClauseTypeIds(g, n) # {} THEN g
    ELSE [g EXCEPT !.ClauseType = Append(@, [name |-> n])]

\* CREATE (s)-[r:T]->(d) SET r.<prop> = v: a new relationship whatever is
\* there.
CreateRelSet(rels, s, d, v) ==
    Append(rels, [src |-> s, dst |-> d, prop |-> v])

\* MERGE (s)-[r:T]->(d) SET r.<prop> = v  with both end nodes bound: the
\* relationship between the two nodes is reused when there is one, created
\* otherwise; the SET is unconditional and applies to every matched one.
MergeRelSet(rels, s, d, v) ==
    IF RelIds(rels, s, d) = {}
    THEN Append(rels, [src |-> s, dst |-> d, prop |-> v])
    ELSE [i \in DOMAIN rels |-> IF i \in RelIds(rels, s, d)
                                THEN [rels[i] EXCEPT !.prop = v] ELSE rels[i]]

\* MERGE (s)-[:T]->(d) with both end nodes bound and no property.
MergeRel(rels, s, d) ==
    IF RelIds(rels, s, d) = {} THEN Append(rels, [src |-> s, dst |-> d])
    ELSE rels

\* Lines 47-50: governing-law country and the GOVERNED_BY_LAW relationship.
MergeGoverningLaw(g, agreement, gl) ==
    LET g1 == MergeCountry(g, gl.country)
        gl_country == Min(CountryIds(g1, gl.country))
    IN [g1 EXCEPT !.GOVERNED_BY_LAW = MergeRelSet(@, agreement, gl_country, gl.state)]

\* Lines 54-59: the body of FOREACH (party IN a.parties | ...).
MergeParty(g, agreement, party) ==
    LET g1 == MergeOrganization(g, party.name)
        p  == Min(OrganizationIds(g1, party.name))
        g2 == [g1 EXCEPT !.IS_PARTY_TO = MergeRelSet(@, p, agreement, party.role)]
        g3 == MergeCountry(g2, party.incorporation_country)
        country_of_incorporation == Min(CountryIds(g3, party.incorporation_country))
    IN [g3 EXCEPT !.INCORPORATED_IN =
           MergeRelSet(@, p, country_of_incorporation, party.incorporation_state)]

RECURSIVE ForEachParty(_, _, _)
ForEachParty(g, agreement, parties) ==
    IF parties = << >> THEN g
    ELSE ForEachParty(MergeParty(g, agreement, Head(parties)), agreement, Tail(parties))

\* Line 71: MERGE (cl)-[:HAS_EXCERPT]->(e:Excerpt {text: excerpt}).  Only cl
\* is bound, so the whole pattern is matched or the whole pattern is
\* created: an Excerpt with this text that is not yet attached to cl does
\* not match, and a new Excerpt node is created with the relationship.
MergeExcerpt(g, cl, excerpt) ==
    IF \E i \in DOMAIN g.HAS_EXCERPT :
          /\ g.HAS_EXCERPT[i].src = cl
          /\ g.Excerpt[g.HAS_EXCERPT[i].dst].text = excerpt
    THEN g
    ELSE LET g1 == [g EXCEPT !.Excerpt = Append(@, [text |-> excerpt, embedding |-> Null])]
         IN [g1 EXCEPT !.HAS_EXCERPT = Append(@, [src |-> cl, dst |-> Len(g1.Excerpt)])]

RECURSIVE ForEachExcerpt(_, _, _)
ForEachExcerpt(g, cl, excerpts) ==
    IF excerpts = << >> THEN g
    ELSE ForEachExcerpt(MergeExcerpt(g, cl, Head(excerpts)), cl, Tail(excerpts))

\* Lines 65-76: the body of FOREACH (clause IN valid_clauses | ...).
CreateClause(g, agreement, clause) ==
    LET g1 == [g EXCEPT !.ContractClause = Append(@, [type |-> clause.clause_type])]
        cl == Len(g1.ContractClause)
        g2 == [g1 EXCEPT !.HAS_CLAUSE = MergeRelSet(@, agreement, cl, clause.clause_type)]
        g3 == ForEachExcerpt(g2, cl, clause.excerpts)
        g4 == MergeClauseTypeNode(g3, clause.clause_type)
        clType == Min(ClauseTypeIds(g4, clause.clause_type))
    IN [g4 EXCEPT !.HAS_TYPE = MergeRel(@, cl, clType)]

RECURSIVE ForEachClause(_, _, _)
ForEachClause(g, agreement, clauses) ==
    IF clauses = << >> THEN g
    ELSE ForEachClause(CreateClause(g, agreement, Head(clauses)), agreement, Tail(clauses))

\* The clause list without the filter on exists.
AllClauses(clauses) == clauses

\* Line 63: [clause IN a.clauses WHERE clause.exists = true]
ValidClauses(clauses) == SelectSeq(clauses, LAMBDA clause : clause.exists = TRUE)

\* The whole statement, executed once for one record.
CreateGraphQuery(g, data) ==
    LET a  == data.agreement
        g1 == MergeAgreement(g, a)
        agreement == Min(AgreementIds(g1, a.contract_id))
        g2 == MergeGoverningLaw(g1, agreement, a.governing_law)
        g3 == ForEachParty(g2, agreement, a.parties)
    IN ForEachClause(g3, agreement, ValidClauses(a.clauses))

\* What the statement has done inside its transaction when it ends or
\* raises: MERGE raises on a null property value.
TxMergeParty(tx, agreement, party) ==
    IF tx.raised THEN tx
    ELSE IF party.name = None THEN [tx EXCEPT !.raised = TRUE]
    ELSE LET g1 == MergeOrganization(tx.graph, party.name)
             p  == Min(OrganizationIds(g1, party.name))
             g2 == [g1 EXCEPT !.IS_PARTY_TO = MergeRelSet(@, p, agreement, party.role)]
         IN IF party.incorporation_country = None
            THEN [graph |-> g2, raised |-> TRUE]
            ELSE [graph |-> MergeParty(tx.graph, agreement, party), raised |-> FALSE]

RECURSIVE TxForEachParty(_, _, _)
TxForEachParty(tx, agreement, parties) ==
    IF parties = << >> THEN tx
    ELSE TxForEachParty(TxMergeParty(tx, agreement, Head(parties)), agreement, Tail(parties))

\* Lines 32-78 inside one transaction, up to the clause that raises.
TxCreateGraphQuery(g, data) ==
    LET a  == data.agreement
        g1 == MergeAgreement(g, a)
        agreement == Min(AgreementIds(g1, a.contract_id))
    IN IF a.governing_law.country = None THEN [graph |-> g1, raised |-> TRUE]
       ELSE LET tx == TxForEachParty(
                         [graph |-> MergeGoverningLaw(g1, agreement, a.governing_law),
                          raised |-> FALSE],
                         agreement, a.parties)
            IN IF tx.raised THEN tx
               ELSE [graph |-> ForEachClause(tx.graph, agreement, ValidClauses(a.clauses)),
                     raised |-> FALSE]

\* execute_query that keeps what the statement did before it raised.
ExecuteQueryNoRollback(g, data, available) ==
    IF ~available THEN [graph |-> g, raised |-> TRUE]
    ELSE TxCreateGraphQuery(g, data)

\* main, line 325: driver.execute_query(CREATE_GRAPH_QUERY, data) runs the
\* statement in one transaction, which is committed when the statement ends
\* and rolled back when it raises.  The store may also be unavailable.
ExecuteQuery(g, data, available) ==
    IF ~available THEN [graph |-> g, raised |-> TRUE]
    ELSE IF TxCreateGraphQuery(g, data).raised THEN [graph |-> g, raised |-> TRUE]
    ELSE [graph |-> TxCreateGraphQuery(g, data).graph, raised |-> FALSE]

\* ------------------------------------------------- ContractSearchService
RECURSIVE Concat(_)
Concat(ss) == IF ss = << >> THEN << >> ELSE Head(ss) \o Concat(Tail(ss))

\* The element ids of a node sequence, ascending.  Cypher leaves the order of
\* matched rows open; rows are produced here in order of element id.
IdSeq(nodes) == [i \in 1..Len(nodes) |-> i]

\* MATCH (country:Country)-[i:INCORPORATED_IN]-(p:Organization)-[r:IS_PARTY_TO]-(a)
\* for a bound a: one row per pair of an IS_PARTY_TO relationship into a and
\* an INCORPORATED_IN relationship of the same organization.
PartyRows(g, a) ==
    LET rs == SelectSeq(g.IS_PARTY_TO, LAMBDA r : r.dst = a)
        inc(r) == SelectSeq(g.INCORPORATED_IN, LAMBDA i : i.src = r.src)
    IN Concat([k \in DOMAIN rs |->
                 [j \in DOMAIN inc(rs[k]) |->
                    [p |-> g.Organization[rs[k].src],
                     r |-> rs[k],
                     country |-> g.Country[inc(rs[k])[j].dst],
                     i |-> inc(rs[k])[j]]]])

\* The "parties" list every operation builds from the collected columns
\* parties, roles, countries and states of one record.
PartyList(rows) ==
    [k \in DOMAIN rows |->
       [name |-> rows[k].p.name,
        role |-> rows[k].r.prop,
        incorporation_country |-> rows[k].country.name,
        incorporation_state |-> rows[k].i.prop]]

\* MATCH (a)-[:HAS_CLAUSE]->(clause:ContractClause) for a bound a: the ids of
\* the clause nodes, one per relationship.
ClausesOf(g, a) ==
    LET hs == SelectSeq(g.HAS_CLAUSE, LAMBDA h : h.src = a)
    IN [k \in DOMAIN hs |-> hs[k].dst]

\* ... (cc:ContractClause {type: $clause_type})
ClausesOfType(g, a, clause_type) ==
    SelectSeq(ClausesOf(g, a), LAMBDA cc : g.ContractClause[cc].type = clause_type)

\* The query of get_contract (lines 97-104): the records returned.
GetContractRecords(g, contract_id) ==
    LET as == SelectSeq(IdSeq(g.Agreement),
                 LAMBDA a : /\ g.Agreement[a].contract_id = contract_id
                            /\ ClausesOf(g, a) # << >>      \* first MATCH
                            /\ PartyRows(g, a) # << >>)     \* second MATCH
    IN [k \in DOMAIN as |->
          [agreement |-> g.Agreement[as[k]],
           clauses |-> ClausesOf(g, as[k]),
           rows |-> PartyRows(g, as[k])]]

ContractDetail(g, record) ==
    [contract_id |-> record.agreement.contract_id,
     name |-> record.agreement.name,
     agreement_type |-> record.agreement.agreement_type,
     effective_date |-> record.agreement.effective_date,
     expiration_date |-> record.agreement.expiration_date,
     renewal_term |-> record.agreement.renewal_term,
     parties |-> PartyList(record.rows),
     clauses |-> [k \in DOMAIN record.clauses |->
                    [clause_type |-> g.ContractClause[record.clauses[k]].type]]]

NotFound(contract_id) == [error |-> "Contract " \o ToString(contract_id) \o " not found"]

\* get_contract without the "if not records" test: records[0] of an empty
\* list raises IndexError.
GetContractUnchecked(g, contract_id) ==
    IF contract_id <= 0 THEN [error |-> "Contract ID must be positive"]
    ELSE LET records == GetContractRecords(g, contract_id)
         IN IF records = << >> THEN [raised |-> "IndexError"]
            ELSE ContractDetail(g, records[1])

\* get_contract, lines 94-140.
GetContract(g, contract_id) ==
    IF contract_id <= 0 THEN [error |-> "Contract ID must be positive"]
    ELSE LET records == GetContractRecords(g, contract_id)
         IN IF records = << >> THEN NotFound(contract_id)
            ELSE ContractDetail(g, records[1])

\* The result entry the clause-type operations build from one record.
ContractSummary(agreement, rows) ==
    [contract_id |-> agreement.contract_id,
     name |-> agreement.name,
     agreement_type |-> agreement.agreement_type,
     parties |-> PartyList(rows)]

\* get_contracts_with_clause_type, lines 207-241.  "WITH a" keeps one row per
\* matching clause; the party rows of an agreement are matched once for
\* each of them and collected into the one record grouped by a.
GetContractsWithClauseType(g, clause_type) ==
    LET rowsOf(a) == Concat([k \in DOMAIN ClausesOfType(g, a, clause_type) |->
                               PartyRows(g, a)])
        as == SelectSeq(IdSeq(g.Agreement), LAMBDA a : rowsOf(a) # << >>)
    IN [k \in DOMAIN as |-> ContractSummary(g.Agreement[as[k]], rowsOf(as[k]))]

\* OPTIONAL MATCH (a)-[:HAS_CLAUSE]->(cc:ContractClause {type: $clause_type}):
\* the matching clauses, or one row with cc = null when there is none.
OptionalClauseRows(g, a, clause_type) ==
    IF ClausesOfType(g, a, clause_type) = << >> THEN << Null >>
    ELSE ClausesOfType(g, a, clause_type)

\* get_contracts_without_clause with the WHERE cc IS NULL filter left out.
GetContractsWithoutClauseUnfiltered(g, clause_type) ==
    LET rowsOf(a) == Concat([k \in DOMAIN OptionalClauseRows(g, a, clause_type) |->
                               PartyRows(g, a)])
        as == SelectSeq(IdSeq(g.Agreement), LAMBDA a : rowsOf(a) # << >>)
    IN [k \in DOMAIN as |-> ContractSummary(g.Agreement[as[k]], rowsOf(as[k]))]

\* get_contracts_without_clause, lines 253-290.
GetContractsWithoutClause(g, clause_type) ==
    LET kept(a) == SelectSeq(OptionalClauseRows(g, a, clause_type),
                             LAMBDA cc : cc = Null)         \* WHERE cc IS NULL
        rowsOf(a) == Concat([k \in DOMAIN kept(a) |-> PartyRows(g, a)])
        as == SelectSeq(IdSeq(g.Agreement), LAMBDA a : rowsOf(a) # << >>)
    IN [k \in DOMAIN as |-> ContractSummary(g.Agreement[as[k]], rowsOf(as[k]))]

\* The contract_ids of a result list.
ContractIdsOf(results) == { results[k].contract_id : k \in DOMAIN results }

\* ------------------------------------ generate_embeddings_for_excerpts
Vectors == 1..NumVectors

\* What one pass of the loop body can meet: the embedding call returns a
\* vector and the update is committed, the embedding call raises, or the
\* update statement raises (nothing is committed).
Outcomes == { [kind |-> "ok", vector |-> v] : v \in Vectors }
              \cup { [kind |-> "embedding_failed", vector |-> Null],
                     [kind |-> "write_failed", vector |-> Null] }

\* A selection that leaves out "AND e.embedding IS NULL".
SelectAllExcerpts(g) ==
    [k \in DOMAIN g.Excerpt |-> [text |-> g.Excerpt[k].text, element_id |-> k]]

\* Lines 244-251: MATCH (e:Excerpt) WHERE e.text IS NOT NULL AND
\* e.embedding IS NULL RETURN e.text, elementId(e).  Every Excerpt node is
\* created with a text (MERGE rejects a null property value).
SelectExcerpts(g) ==
    LET ids == SelectSeq(IdSeq(g.Excerpt), LAMBDA e : g.Excerpt[e].embedding = Null)
    IN [k \in DOMAIN ids |-> [text |-> g.Excerpt[ids[k]].text, element_id |-> ids[k]]]

\* A worker that is not inside a backfill run.  attempted, embedFailed and
\* writeFailed record the element ids the latest run has gone through;
\* reported is << >>, or <<n>> once the run has printed "Generated
\* embeddings for n excerpts" (the early return prints no number).
IdleRun == [pc |-> "idle", excerpts |-> << >>, i |-> 1,
            attempted |-> {}, embedFailed |-> {}, writeFailed |-> {},
            reported |-> << >>]

\* Lines 250-257: the selection and the early return on an empty list.
StartRun(g) ==
    IF SelectExcerpts(g) = << >> THEN IdleRun
    ELSE [IdleRun EXCEPT !.pc = "loop", !.excerpts = SelectExcerpts(g)]

\* Lines 266-273: MATCH (e:Excerpt) WHERE elementId(e) = $element_id
\* SET e.embedding = $embedding.
SetEmbedding(g, element_id, embedding) ==
    [g EXCEPT !.Excerpt = [e \in DOMAIN @ |->
        IF e = element_id THEN [@[e] EXCEPT !.embedding = embedding] ELSE @[e]]]

\* The worker after one pass; the loop ends after the last excerpt, and
\* line 280 then prints len(excerpts) as the number of generated embeddings.
Advance(b, element_id) ==
    [b EXCEPT !.i = @ + 1,
              !.attempted = @ \cup {element_id},
              !.pc = IF b.i = Len(b.excerpts) THEN "idle" ELSE "loop",
              !.reported = IF b.i = Len(b.excerpts) THEN << Len(b.excerpts) >> ELSE @]

\* One pass of the loop with the try around the whole loop instead of
\* around its body: the first failure ends the run.
ProcessExcerptAbortOnFailure(g, b, outcome) ==
    LET element_id == b.excerpts[b.i].element_id IN
    CASE outcome.kind = "ok" ->
           [graph |-> SetEmbedding(g, element_id, outcome.vector),
            bf |-> Advance(b, element_id)]
      [] outcome.kind = "embedding_failed" ->
           [graph |-> g,
            bf |-> [Advance(b, element_id) EXCEPT !.embedFailed = @ \cup {element_id},
                                                  !.pc = "idle"]]
      [] outcome.kind = "write_failed" ->
           [graph |-> g,
            bf |-> [Advance(b, element_id) EXCEPT !.writeFailed = @ \cup {element_id},
                                                  !.pc = "idle"]]

\* Lines 260-278: one pass of the loop for excerpts[i].  An exception of the
\* embedding call or of the update is caught inside the loop body, and the
\* loop goes on with the next excerpt.
ProcessExcerpt(g, b, outcome) ==
    LET element_id == b.excerpts[b.i].element_id IN
    CASE outcome.kind = "ok" ->
           [graph |-> SetEmbedding(g, element_id, outcome.vector),
            bf |-> Advance(b, element_id)]
      [] outcome.kind = "embedding_failed" ->
           [graph |-> g,
            bf |-> [Advance(b, element_id) EXCEPT !.embedFailed = @ \cup {element_id}]]
      [] outcome.kind = "write_failed" ->
           [graph |-> g,
            bf |-> [Advance(b, element_id) EXCEPT !.writeFailed = @ \cup {element_id}]]

\* ------------------------------------------------------- create_indices
\* Lines 81-130: the declared indices, by name, in the order of the list.
\* Every create statement of the list carries IF NOT EXISTS.
INDICES == << "excerpt_vector_index", "excerpt_text_index", "agreement_type_index",
             "clause_type_index", "organization_name_index", "agreement_id_index" >>

\* The index catalog of the store is the sequence of the names of its indices.
\* SHOW INDEXES WHERE name = $index_name: the catalog entries of that name.
ShowIndexes(catalog, index_name) ==
    SelectSeq(catalog, LAMBDA n : n = index_name)

\* CREATE ... INDEX <name> [IF NOT EXISTS]: a new catalog entry; on a name
\* the catalog already holds, nothing happens with IF NOT EXISTS and the
\* statement raises without it.
CreateIndex(catalog, index_name, if_not_exists) ==
    IF ShowIndexes(catalog, index_name) = << >>
    THEN [catalog |-> Append(catalog, index_name), raised |-> FALSE]
    ELSE [catalog |-> catalog, raised |-> ~if_not_exists]

\* The history of the latest create_indices call: the names whose existence
\* was checked, the names a create statement was issued for, and whether a
\* statement raised.
NoIndexRun == [checked |-> << >>, created |-> << >>, raised |-> FALSE]

\* One pass of the loop without the existence check: the create statement
\* is issued for every declared index.
EnsureIndexUnchecked(r, index_name) ==
    LET c == CreateIndex(r.catalog, index_name, TRUE) IN
    [catalog |-> c.catalog,
     run |-> [checked |-> r.run.checked,
              created |-> Append(r.run.created, index_name),
              raised |-> c.raised]]

\* Lines 224-233, one pass of the loop: check by name, create if absent.
\* An exception of a statement leaves the function (there is no try).
EnsureIndex(r, index_name) ==
    IF r.run.raised THEN r
    ELSE IF ShowIndexes(r.catalog, index_name) # << >>
    THEN [r EXCEPT !.run.checked = Append(@, index_name)]
    ELSE LET c == CreateIndex(r.catalog, index_name, TRUE) IN
         [catalog |-> c.catalog,
          run |-> [checked |-> Append(r.run.checked, index_name),
                   created |-> Append(r.run.created, index_name),
                   raised |-> c.raised]]

RECURSIVE ForEachIndex(_, _)
ForEachIndex(r, k) ==
    IF k > Len(INDICES) THEN r
    ELSE ForEachIndex(EnsureIndex(r, INDICES[k]), k + 1)

\* Lines 215-233: create_indices on a store with the given catalog.
CreateIndicesOn(catalog) ==
    ForEachIndex([catalog |-> catalog, run |-> NoIndexRun], 1)

\* ------------------------------------------- ContractSearchService calls
\* What a call of a service operation leaves behind: << >> or <<exception>>
\* it raised, the value it returned, and the numbers of statements it sent to
\* the graph store, of calls of the embedding capability and of calls of the
\* language model.
Reply(raised, value, store, embed, llm) ==
    [raised |-> raised, value |-> value, store |-> store, embed |-> embed, llm |-> llm]

\* get_contract with the guard "contract_id < 0": id 0 goes to the store.
GetContractCallFromZero(g, contract_id) ==
    IF contract_id < 0 THEN Reply(<< >>, GetContract(g, contract_id), 0, 0, 0)
    ELSE Reply(<< >>, GetContract(g, contract_id), 1, 0, 0)

\* get_contract, lines 94-106: the early return comes before execute_query.
GetContractCall(g, contract_id) ==
    IF contract_id <= 0 THEN Reply(<< >>, GetContract(g, contract_id), 0, 0, 0)
    ELSE Reply(<< >>, GetContract(g, contract_id), 1, 0, 0)

RECURSIVE Distinct(_)
Distinct(s) ==
    IF s = << >> THEN << >>
    ELSE << Head(s) >> \o Distinct(SelectSeq(Tail(s), LAMBDA x : x # Head(s)))

\* MATCH (a)-[:HAS_CLAUSE]->(cc:ContractClause)-[:HAS_EXCERPT]->(e:Excerpt)
\* for a bound a: one row per path.
ExcerptRows(g, a) ==
    LET ofClause(cc) == SelectSeq(g.HAS_EXCERPT, LAMBDA h : h.src = cc)
    IN Concat([k \in DOMAIN ClausesOf(g, a) |->
                 [j \in DOMAIN ofClause(ClausesOf(g, a)[k]) |->
                    [contract_clause_type |-> g.ContractClause[ClausesOf(g, a)[k]].type,
                     text |-> g.Excerpt[ofClause(ClausesOf(g, a)[k])[j].dst].text]]])

\* The query of get_contract_excerpts (lines 405-409): one record per
\* Agreement and clause type, with the collected excerpt texts.
GetContractExcerptsRecords(g, contract_id) ==
    LET as == SelectSeq(IdSeq(g.Agreement),
                        LAMBDA a : g.Agreement[a].contract_id = contract_id)
        typesOf(a) == Distinct([k \in DOMAIN ExcerptRows(g, a) |->
                                  ExcerptRows(g, a)[k].contract_clause_type])
        textsOf(a, t) ==
            LET rows == SelectSeq(ExcerptRows(g, a),
                                  LAMBDA r : r.contract_clause_type = t)
            IN [k \in DOMAIN rows |-> rows[k].text]
    IN Concat([k \in DOMAIN as |->
                 [j \in DOMAIN typesOf(as[k]) |->
                    [agreement |-> g.Agreement[as[k]],
                     contract_clause_type |-> typesOf(as[k])[j],
                     excerpts |-> textsOf(as[k], typesOf(as[k])[j])]]])

\* Lines 415-438: clause_dict keeps, for each clause type, the excerpts of
\* the last record of that type.
ExcerptDetail(records) ==
    LET types == Distinct([k \in DOMAIN records |-> records[k].contract_clause_type])
        last(t) == CHOOSE k \in DOMAIN records :
                      /\ records[k].contract_clause_type = t
                      /\ \A j \in DOMAIN records :
                            records[j].contract_clause_type = t => j <= k
    IN [contract_id |-> records[1].agreement.contract_id,
        name |-> records[1].agreement.name,
        agreement_type |-> records[1].agreement.agreement_type,
        effective_date |-> records[1].agreement.effective_date,
        expiration_date |-> records[1].agreement.expiration_date,
        renewal_term |-> records[1].agreement.renewal_term,
        clauses |-> [k \in DOMAIN types |->
                       [clause_type |-> types[k],
                        excerpts |-> records[last(types[k])].excerpts]]]

\* get_contract_excerpts, lines 402-438.
GetContractExcerptsCall(g, contract_id) ==
    IF contract_id <= 0
    THEN Reply(<< >>, [error |-> "Contract ID must be positive"], 0, 0, 0)
    ELSE LET records == GetContractExcerptsRecords(g, contract_id)
         IN Reply(<< >>,
                  IF records = << >> THEN NotFound(contract_id)
                  ELSE ExcerptDetail(records),
                  1, 0, 0)

\* An organization name is a sequence of characters.  str.strip() removes
\* the leading and the trailing whitespace.
Whitespace == {" ", "\t", "\n", "\r"}

RECURSIVE LStrip(_)
LStrip(s) == IF s # << >> /\ Head(s) \in Whitespace THEN LStrip(Tail(s)) ELSE s

RECURSIVE RStrip(_)
RStrip(s) ==
    IF s # << >> /\ s[Len(s)] \in Whitespace THEN RStrip(SubSeq(s, 1, Len(s) - 1)) ELSE s

Strip(s) == RStrip(LStrip(s))

\* The query of get_contracts_by_organization (lines 155-167) when the
\* fulltext index ranks the Organization node o first (Null: no hit): one
\* row per IS_PARTY_TO relationship from o, the party rows of its Agreement
\* matched for each, one record per Agreement.
ContractsOfOrganization(g, o) ==
    LET rels == SelectSeq(g.IS_PARTY_TO, LAMBDA r : r.src = o)
        rowsOf(a) == Concat([k \in DOMAIN SelectSeq(rels, LAMBDA r : r.dst = a) |->
                               PartyRows(g, a)])
        as == SelectSeq(IdSeq(g.Agreement), LAMBDA a : rowsOf(a) # << >>)
    IN [k \in DOMAIN as |-> ContractSummary(g.Agreement[as[k]], rowsOf(as[k]))]

\* get_contracts_by_organization with the guard "if not organization_name".
GetContractsByOrganizationCallUnstripped(g, organization_name, o) ==
    IF organization_name = << >>
    THEN Reply(<< >>, << >>, 0, 0, 0)
    ELSE Reply(<< >>, ContractsOfOrganization(g, o), 1, 0, 0)

\* get_contracts_by_organization, lines 152-195.
GetContractsByOrganizationCall(g, organization_name, o) ==
    IF organization_name = << >> \/ Strip(organization_name) = << >>
    THEN Reply(<< >>, << >>, 0, 0, 0)
    ELSE Reply(<< >>, ContractsOfOrganization(g, o), 1, 0, 0)

\* Line 321: top_k of the vector search.
TopK == 3

\* What the vector index can return for a query vector: TopK of the Excerpt
\* nodes that carry an embedding, or all of them when there are fewer.
\* Their ranking is left to the index; they are listed by element id.
HitLists(g) ==
    LET embedded == { e \in DOMAIN g.Excerpt : g.Excerpt[e].embedding # Null }
        k == IF Cardinality(embedded) < TopK THEN Cardinality(embedded) ELSE TopK
    IN { SelectSeq(IdSeq(g.Excerpt), LAMBDA e : e \in S) :
           S \in { T \in SUBSET embedded : Cardinality(T) = k } }

\* traversal_query (lines 305-309) for one node of the vector search, and
\* format_vector_search_result (lines 21-35) for each of its rows.
TraversalRows(g, node) ==
    LET hs == SelectSeq(g.HAS_EXCERPT, LAMBDA h : h.dst = node)
        cs(h) == SelectSeq(g.HAS_CLAUSE, LAMBDA c : c.dst = h.src)
    IN Concat([k \in DOMAIN hs |->
                 [j \in DOMAIN cs(hs[k]) |->
                    [contract_id |-> g.Agreement[cs(hs[k])[j].src].contract_id,
                     agreement_name |-> g.Agreement[cs(hs[k])[j].src].name,
                     clause_type |-> g.ContractClause[hs[k].src].type,
                     excerpt |-> g.Excerpt[node].text]]])

\* The embedding of the query text: a vector, or an exception.
QueryEmbeddings == { o \in Outcomes : o.kind \in {"ok", "embedding_failed"} }

\* get_contracts_similar_text with the retriever call inside a try whose
\* handler returns the empty list.
GetContractsSimilarTextCallSwallowing(g, clause_text, validated, outcome, hits) ==
    IF clause_text = "" /\ validated
    THEN Reply(<< "SearchValidationError" >>, << >>, 0, 0, 0)
    ELSE IF outcome.kind # "ok"
    THEN Reply(<< >>, << >>, 0, 1, 0)
    ELSE Reply(<< >>, Concat([k \in DOMAIN hits |-> TraversalRows(g, hits[k])]), 1, 1, 0)

\* get_contracts_similar_text, lines 292-336.  The operation hands
\* clause_text to retriever.search as it is and has no try.  validated tells
\* whether the retriever itself refuses an empty query text before it calls
\* the embedder (the retriever is a library; the operation does not check).
GetContractsSimilarTextCall(g, clause_text, validated, outcome, hits) ==
    IF clause_text = "" /\ validated
    THEN Reply(<< "SearchValidationError" >>, << >>, 0, 0, 0)
    ELSE IF outcome.kind # "ok"
    THEN Reply(<< "EmbeddingsGenerationError" >>, << >>, 0, 1, 0)
    ELSE Reply(<< >>, Concat([k \in DOMAIN hits |-> TraversalRows(g, hits[k])]), 1, 1, 0)

\* str(item.content) of the rows a generated query can return.
RowTexts == {"<Record n=1>", "<Record n=2>"}

ResultRows ==
    {<< >>} \cup { << r >> : r \in RowTexts }
            \cup { << r1, r2 >> : r1, r2 \in RowTexts }
            \cup { << r1, r2, r3 >> : r1, r2, r3 \in RowTexts }

\* What retriever.search of the Text2CypherRetriever can meet: the language
\* model raises, the generated query is refused by the store, or the query
\* runs and returns rows.
Translations ==
    { [kind |-> "llm_failed", rows |-> << >>],
      [kind |-> "invalid_query", rows |-> << >>] }
      \cup { [kind |-> "ok", rows |-> rows] : rows \in ResultRows }

\* Lines 384-388: answer += content + end for each item with a content.
RECURSIVE JoinItems(_, _)
JoinItems(items, end) ==
    IF items = << >> THEN ""
    ELSE (IF Head(items) # "" THEN Head(items) \o end ELSE "")
           \o JoinItems(Tail(items), end)

\* The answer with one line break after each item.
AnswerTextSingleSpaced(items) ==
    IF JoinItems(items, "\n") # "" THEN JoinItems(items, "\n") ELSE "No results found."

\* Lines 383-390: each item followed by "\n\n"; the fixed text when the
\* answer stays empty.
AnswerText(items) ==
    IF JoinItems(items, "\n\n") # "" THEN JoinItems(items, "\n\n") ELSE "No results found."

\* answer_aggregation_question, lines 375-390.  There is no try around
\* retriever.search, here or in ContractTools.answer_aggregation_question.
AnswerAggregationQuestionCall(translation) ==
    CASE translation.kind = "llm_failed" ->
           Reply(<< "LLMGenerationError" >>, << >>, 0, 0, 1)
      [] translation.kind = "invalid_query" ->
           Reply(<< "Text2CypherRetrievalError" >>, << >>, 1, 0, 1)
      [] translation.kind = "ok" ->
           Reply(<< >>, AnswerText(translation.rows), 1, 0, 1)

\* ----------------------------------------------------------- ContractTools
\* agent_config.py, lines 47-55: the operations handed to the agent.
ToolNames ==
    { "get_contract", "get_contracts_by_organization", "get_contracts_with_clause_type",
      "get_contracts_without_clause", "get_contracts_similar_text",
      "answer_aggregation_question", "get_contract_excerpts" }

\* json.dumps(result, indent=2): the JSON text of a value.  The text is kept
\* as the value it encodes, marked as encoded.
JsonDumps(value) == [json |-> TRUE, content |-> value]

\* A value returned as it is.
Unencoded(value) == [json |-> FALSE, content |-> value]

\* contract_tools.py, lines 40-161: what the method of the facade returns
\* for the reply of the service operation of the same name.  An exception
\* of the service passes through (no method has a try).
ToolReturn(op, reply) ==
    [raised |-> reply.raised,
     out |-> IF reply.raised # << >> THEN Unencoded(<< >>)
             ELSE IF op = "answer_aggregation_question" THEN Unencoded(reply.value)
             ELSE JsonDumps(reply.value)]

\* ---------------------------------------------------------------- state
\* Backfill workers.  The build script runs one backfill at a time.
Workers == {"w1", "w2"}
MainWorker == "w1"

VARIABLES
    graph,        \* the store
    builds,       \* number of build statements executed so far
    lastData,     \* << >> or <<data>>: the record of the latest build statement
    bf,           \* per worker: the position inside generate_embeddings_for_excerpts
    runs,         \* number of backfill runs started so far
    runComplete,  \* a backfill run has ended and no build was executed since
    indexes,      \* the index catalog of the store
    indexRuns,    \* number of create_indices calls so far
    indexRun,     \* the history of the latest create_indices call
    call,         \* the latest call of a service operation
    main,         \* the position of the build script inside its record loop
    input         \* the output directory and what the latest load made of it

vars == << graph, builds, lastData, bf, runs, runComplete,
           indexes, indexRuns, indexRun, call, main, input >>

\* An empty output directory that was never loaded.  dir maps the names of
\* the files to their contents, assigned maps the names of the files of the
\* latest load to the contract_id their record was given.
NoInput == [dir |-> << >>, assigned |-> << >>, loads |-> 0]

\* No service operation has been called.
NoCall == [op |-> "none", input |-> << >>, reply |-> Reply(<< >>, << >>, 0, 0, 0),
           tool |-> [raised |-> << >>, out |-> Unencoded(<< >>)]]

\* The build script is not running.
NoMain == [pc |-> "off", batch |-> << >>, i |-> 1, executed |-> << >>, failed |-> {}]

Init ==
    /\ graph = EmptyGraph
    /\ builds = 0
    /\ lastData = << >>
    /\ bf = [w \in Workers |-> IdleRun]
    /\ runs = 0
    /\ runComplete = FALSE
    /\ indexes = << >>
    /\ indexRuns = 0
    /\ indexRun = NoIndexRun
    /\ call = NoCall
    /\ main = NoMain
    /\ input = NoInput

\* main, lines 322-326: one execute_query(CREATE_GRAPH_QUERY, data).  The
\* script builds all records before it starts the backfill.
BuildGraph(data, limit) ==
    /\ builds < limit
    /\ \A w \in Workers : bf[w].pc = "idle"
    /\ graph' = CreateGraphQuery(graph, data)
    /\ builds' = builds + 1
    /\ lastData' = << data >>
    /\ runComplete' = FALSE
    /\ UNCHANGED << bf, runs, indexes, indexRuns, indexRun, call, main, input >>

\* generate_embeddings_for_excerpts up to the loop (lines 243-257).
BackfillStart(w) ==
    /\ bf[w].pc = "idle"
    /\ runs < MaxRuns
    /\ bf' = [bf EXCEPT ![w] = StartRun(graph)]
    /\ runs' = runs + 1
    /\ runComplete' = (StartRun(graph).pc = "idle")
    /\ UNCHANGED << graph, builds, lastData, indexes, indexRuns, indexRun, call, main, input >>

\* One pass of the loop (lines 260-278), and the end of the run after the
\* last one (line 280).
BackfillStep(w) ==
    /\ bf[w].pc = "loop"
    /\ \E outcome \in Outcomes :
          LET next == ProcessExcerpt(graph, bf[w], outcome) IN
          /\ graph' = next.graph
          /\ bf' = [bf EXCEPT ![w] = next.bf]
          /\ runComplete' = (next.bf.pc = "idle")
    /\ UNCHANGED << builds, lastData, runs, indexes, indexRuns, indexRun, call, main, input >>

\* The graph builder alone: any sequence of build statements.
Next == \E data \in Records : BuildGraph(data, MaxBuilds)

Spec == Init /\ [][Next]_vars

\* Records offered to the builder in behaviours with backfill runs: each
\* adds one Excerpt node.
BackfillRecords == { Record(id, 1, cl) : id \in ContractIds,
                                         cl \in {InsuranceClauses, NonCompeteClauses} }

\* Build statements and backfill runs of one worker, one after the other.
NextBackfill ==
    \/ \E data \in BackfillRecords : BuildGraph(data, MaxBuilds)
    \/ BackfillStart(MainWorker)
    \/ BackfillStep(MainWorker)

SpecBackfill == Init /\ [][NextBackfill]_vars

\* Two invocations of the backfill against the same store: the loops of the
\* two workers interleave pass by pass.
NextConcurrent ==
    \/ \E data \in BackfillRecords : BuildGraph(data, MaxBuilds)
    \/ \E w \in Workers : BackfillStart(w)
    \/ \E w \in Workers : BackfillStep(w)

SpecConcurrent == Init /\ [][NextConcurrent]_vars

\* main, line 331: one call of create_indices(driver).  The function makes
\* no await, so a call runs from its first check to its last statement.
CreateIndices(limit) ==
    /\ indexRuns < limit
    /\ indexes' = CreateIndicesOn(indexes).catalog
    /\ indexRun' = CreateIndicesOn(indexes).run
    /\ indexRuns' = indexRuns + 1
    /\ UNCHANGED << graph, builds, lastData, bf, runs, runComplete, call, main, input >>

\* The catalogs a store can hold when the script starts: any of the declared
\* indices may be there from an earlier run, in the order of the list.
Catalogs ==
    { SelectSeq(INDICES, LAMBDA n : n \in present) :
        present \in SUBSET { INDICES[k] : k \in DOMAIN INDICES } }

InitIndices ==
    /\ graph = EmptyGraph
    /\ builds = 0
    /\ lastData = << >>
    /\ bf = [w \in Workers |-> IdleRun]
    /\ runs = 0
    /\ runComplete = FALSE
    /\ indexes \in Catalogs
    /\ indexRuns = 0
    /\ indexRun = NoIndexRun
    /\ call = NoCall
    /\ main = NoMain
    /\ input = NoInput

NextIndices == CreateIndices(MaxIndexRuns)

\* create_indices called again and again on a store with any of the
\* declared indices.
SpecIndices == InitIndices /\ [][NextIndices]_vars

\* A backfill run in which every embedding call and every update succeeds.
RECURSIVE RunLoop(_, _)
RunLoop(g, b) ==
    IF b.pc = "idle" THEN g
    ELSE LET next == ProcessExcerpt(g, b, [kind |-> "ok", vector |-> 1])
         IN RunLoop(next.graph, next.bf)

Backfilled(g) == RunLoop(g, StartRun(g))

\* The stores the service is asked about: the graph after up to two build
\* statements, before the backfill or after a backfill without failure.
ServiceGraphs ==
    LET built == {EmptyGraph}
                   \cup { CreateGraphQuery(EmptyGraph, d) : d \in Records }
                   \cup { CreateGraphQuery(CreateGraphQuery(EmptyGraph, d1), d2) :
                            d1, d2 \in Records }
    IN built \cup { Backfilled(g) : g \in built }

\* Contract ids the service is asked for.
CalledIds == {-1, 0, 1, 2, 3}

\* Organization names the service is asked for.
OrganizationNames ==
    { << >>, << " " >>, << " ", "\t", " " >>,
      << "A", "c", "m", "e" >>, << " ", "B", "e", "t", "a", " " >> }

\* Clause texts the service is asked for.
ClauseTexts == { "", "insurance coverage" }

\* One call of an operation through the tool facade: the store stays as it
\* is.
Call(op, args, reply) ==
    /\ call.op = "none"
    /\ call' = [op |-> op, input |-> args, reply |-> reply,
                tool |-> ToolReturn(op, reply)]
    /\ UNCHANGED << graph, builds, lastData, bf, runs, runComplete,
                    indexes, indexRuns, indexRun, main, input >>

CallGetContract ==
    \E contract_id \in CalledIds :
        Call("get_contract", [contract_id |-> contract_id],
             GetContractCall(graph, contract_id))

CallGetContractExcerpts ==
    \E contract_id \in CalledIds :
        Call("get_contract_excerpts", [contract_id |-> contract_id],
             GetContractExcerptsCall(graph, contract_id))

CallGetContractsByOrganization ==
    \E organization_name \in OrganizationNames :
      \E o \in DOMAIN graph.Organization \cup {Null} :
        Call("get_contracts_by_organization", [organization_name |-> organization_name],
             GetContractsByOrganizationCall(graph, organization_name, o))

\* get_contracts_with_clause_type, lines 197-241: one query, no validation.
CallGetContractsWithClauseType ==
    \E clause_type \in ClauseTypeNames \cup {"Audit Rights"} :
        Call("get_contracts_with_clause_type", [clause_type |-> clause_type],
             Reply(<< >>, GetContractsWithClauseType(graph, clause_type), 1, 0, 0))

\* get_contracts_without_clause, lines 243-290: one query, no validation.
CallGetContractsWithoutClause ==
    \E clause_type \in ClauseTypeNames \cup {"Audit Rights"} :
        Call("get_contracts_without_clause", [clause_type |-> clause_type],
             Reply(<< >>, GetContractsWithoutClause(graph, clause_type), 1, 0, 0))

CallGetContractsSimilarText ==
    \E clause_text \in ClauseTexts, validated \in BOOLEAN :
      \E outcome \in QueryEmbeddings, hits \in HitLists(graph) :
        Call("get_contracts_similar_text",
             [clause_text |-> clause_text, validated |-> validated,
              outcome |-> outcome.kind],
             GetContractsSimilarTextCall(graph, clause_text, validated, outcome, hits))

CallAnswerAggregationQuestion ==
    \E translation \in Translations :
        Call("answer_aggregation_question", translation,
             AnswerAggregationQuestionCall(translation))

InitService ==
    /\ graph \in ServiceGraphs
    /\ builds = 0
    /\ lastData = << >>
    /\ bf = [w \in Workers |-> IdleRun]
    /\ runs = 0
    /\ runComplete = FALSE
    /\ indexes = INDICES
    /\ indexRuns = 0
    /\ indexRun = NoIndexRun
    /\ call = NoCall
    /\ main = NoMain
    /\ input = NoInput

NextService ==
    \/ CallGetContract
    \/ CallGetContractExcerpts
    \/ CallGetContractsByOrganization
    \/ CallGetContractsWithClauseType
    \/ CallGetContractsWithoutClause
    \/ CallGetContractsSimilarText
    \/ CallAnswerAggregationQuestion

\* The service operations called on a built store.
SpecService == InitService /\ [][NextService]_vars

\* ------------------------------------------------------------------ main
\* A file of the output directory: << >> when it is skipped (invalid JSON or
\* no "agreement" key), or <<extraction>>: sample 1 with one of two clause
\* lists, or an extraction with a missing field.
FileEntries ==
    { << >> }
      \cup { << [sample |-> 1, clauses |-> cl] >> :
               cl \in {InsuranceClauses, NonCompeteClauses} }
      \cup { << [sample |-> v, clauses |-> InsuranceClauses] >> : v \in MalformedSamples }

\* The sorted file lists of the directory, one file per contract id at most.
FileLists ==
    UNION { [1..n -> FileEntries] : n \in 0..Cardinality(ContractIds) }

\* load_contracts_from_json, lines 189-212: the position of the file in the
\* sorted list becomes the contract_id, skipped files included in the count.
LoadContractsFromJson(json_files) ==
    LET kept == SelectSeq(IdSeq(json_files), LAMBDA k : json_files[k] # << >>)
    IN [j \in DOMAIN kept |-> Record(kept[j], json_files[kept[j]][1].sample,
                                     json_files[kept[j]][1].clauses)]

\* main, lines 294-298: return when there is no contract, else enter the
\* record loop.
StartMain(contracts) ==
    IF contracts = << >> THEN [NoMain EXCEPT !.pc = "returned"]
    ELSE [NoMain EXCEPT !.pc = "build", !.batch = contracts]

\* The record loop with the try around the loop instead of around its body:
\* a failed build statement leaves the loop and the script.
AfterBuildAborting(m, ok) ==
    [m EXCEPT !.i = @ + 1,
              !.executed = Append(@, m.i),
              !.failed = IF ok THEN @ ELSE @ \cup {m.i},
              !.pc = IF ~ok THEN "raised"
                     ELSE IF m.i = Len(m.batch) THEN "built" ELSE "build"]

\* Lines 322-328: the exception of a build statement is caught inside the
\* loop body; the loop goes on with the next record and ends after the last.
AfterBuild(m, ok) ==
    [m EXCEPT !.i = @ + 1,
              !.executed = Append(@, m.i),
              !.failed = IF ok THEN @ ELSE @ \cup {m.i},
              !.pc = IF m.i = Len(m.batch) THEN "built" ELSE "build"]

\* Lines 322-328, one pass: execute_query of the build statement for
\* contracts[i], which commits or raises.
MainBuild ==
    /\ main.pc = "build"
    /\ \E available \in BOOLEAN :
          LET done == ExecuteQuery(graph, main.batch[main.i], available)
              ok == ~done.raised
          IN /\ graph' = done.graph
             /\ builds' = IF ok THEN builds + 1 ELSE builds
             /\ lastData' = IF ok THEN << main.batch[main.i] >> ELSE lastData
             /\ main' = AfterBuild(main, ok)
    /\ runComplete' = FALSE
    /\ UNCHANGED << bf, runs, indexes, indexRuns, indexRun, call, input >>

\* Line 331: create_indices, once, after the loop.
MainCreateIndices ==
    /\ main.pc = "built"
    /\ CreateIndices(1)

\* The backfill started as soon as the loop is over, create_indices or not.
MainBackfillBeforeIndices ==
    /\ main.pc = "built"
    /\ runs = 0
    /\ BackfillStart(MainWorker)

\* Line 335: the backfill, once, after create_indices.
MainBackfill ==
    /\ main.pc = "built"
    /\ indexRuns = 1
    /\ runs = 0
    /\ BackfillStart(MainWorker)

\* The script has gone through its loop, create_indices and the backfill.
MainDone ==
    /\ main.pc = "built"
    /\ indexRuns = 1
    /\ runs = 1
    /\ bf[MainWorker].pc = "idle"

InitIngest ==
    /\ graph = EmptyGraph
    /\ builds = 0
    /\ lastData = << >>
    /\ bf = [w \in Workers |-> IdleRun]
    /\ runs = 0
    /\ runComplete = FALSE
    /\ indexes \in {<< >>, INDICES}
    /\ indexRuns = 0
    /\ indexRun = NoIndexRun
    /\ call = NoCall
    /\ main \in { StartMain(LoadContractsFromJson(json_files)) : json_files \in FileLists }
    /\ input = NoInput

NextIngest ==
    \/ MainBuild
    \/ MainCreateIndices
    \/ MainBackfill
    \/ BackfillStep(MainWorker)

\* One run of the build script over the files of the output directory.
SpecIngest == InitIngest /\ [][NextIngest]_vars

\* ------------------------------------------------------ the output directory
\* File names; sorted(json_dir.glob("*.json")) lists them in ascending order.
FileNames == 1..NumFiles

\* Line 190: the names of the directory, sorted.
SortedFiles(dir) == SelectSeq([k \in 1..NumFiles |-> k], LAMBDA n : n \in DOMAIN dir)

\* Lines 196-205: the record loaded from the k-th file of the sorted list
\* is the one that carries contract_id k.  The result maps the name of each
\* loaded file to the contract_id of its record.
AssignedIds(dir) ==
    LET sorted == SortedFiles(dir)
        contracts == LoadContractsFromJson([k \in DOMAIN sorted |-> dir[sorted[k]]])
        ids == { contracts[j].agreement.contract_id : j \in DOMAIN contracts }
    IN [n \in { sorted[id] : id \in ids } |->
          CHOOSE id \in ids : sorted[id] = n]

\* An extraction writes one more file into the output directory.
AddFile ==
    \E name \in FileNames \ DOMAIN input.dir :
      \E entry \in { << >>, << [sample |-> 1, clauses |-> InsuranceClauses] >> } :
        /\ input' = [input EXCEPT !.dir = [n \in DOMAIN @ \cup {name} |->
                                             IF n = name THEN entry ELSE @[n]]]
        /\ UNCHANGED << graph, builds, lastData, bf, runs, runComplete,
                        indexes, indexRuns, indexRun, call, main >>

\* main, line 295: load_contracts_from_json at the start of a run.
LoadContracts ==
    /\ input.loads < MaxLoads
    /\ input' = [input EXCEPT !.assigned = AssignedIds(input.dir), !.loads = @ + 1]
    /\ UNCHANGED << graph, builds, lastData, bf, runs, runComplete,
                    indexes, indexRuns, indexRun, call, main >>

NextLoad == AddFile \/ LoadContracts

\* Files are added to the output directory between loads.
SpecLoad == Init /\ [][NextLoad]_vars

\* =============================================================== claims
\* Number of nodes of each label and of relationships of each type.
Counts(g) == [k \in NodeLabels \cup RelTypes |-> Len(g[k])]

\* The step is a build statement.
IsBuildStep == builds' = builds + 1

\* Clause types asked for: the modelled ones and one no record carries.
QueriedClauseTypes == ClauseTypeNames \cup {"Audit Rights"}

\* Contract ids asked for: those offered to the builder and one beyond.
QueriedIds == ContractIds \cup {3}

AllContractIds(g) == { g.Agreement[i].contract_id : i \in DOMAIN g.Agreement }

\* Positions of the clauses of a record extracted as present.
PresentClauses(a) == { k \in DOMAIN a.clauses : a.clauses[k].exists }

\* C1: executing the build statement a second time for the same record
\* leaves the number of nodes of every label and of relationships of every
\* type as it was after the first execution.
C1_SecondBuildKeepsCounts ==
    [][(IsBuildStep /\ lastData' = lastData) => Counts(graph') = Counts(graph)]_vars

\* C2: no step changes the stored properties of an Agreement node that
\* already exists; a build for an existing contract_id with other values
\* leaves the node with the values of the build that created it.
C2_AgreementPropertiesKept ==
    [][\A i \in DOMAIN graph.Agreement : graph'.Agreement[i] = graph.Agreement[i]]_vars

\* C2 witness: the latest build carried a name different from the one the
\* Agreement of the same contract_id holds.
C2_Witness ==
    /\ lastData # << >>
    /\ \E i \in DOMAIN graph.Agreement :
          /\ graph.Agreement[i].contract_id = lastData[1].agreement.contract_id
          /\ graph.Agreement[i].name # lastData[1].agreement.agreement_name

\* The Agreement nodes a ContractClause node hangs on.
OwnersOf(g, cl) == { g.HAS_CLAUSE[k].src : k \in { j \in DOMAIN g.HAS_CLAUSE :
                                                     g.HAS_CLAUSE[j].dst = cl } }

\* C3: clauses of two different contracts that carry the same excerpt
\* string are attached to one and the same Excerpt node (there is one
\* Excerpt node per distinct text, shared by the contracts).
C3_OneExcerptPerText ==
    \A h1, h2 \in DOMAIN graph.HAS_EXCERPT :
        ( /\ graph.Excerpt[graph.HAS_EXCERPT[h1].dst].text
               = graph.Excerpt[graph.HAS_EXCERPT[h2].dst].text
          /\ OwnersOf(graph, graph.HAS_EXCERPT[h1].src)
               # OwnersOf(graph, graph.HAS_EXCERPT[h2].src) )
        => graph.HAS_EXCERPT[h1].dst = graph.HAS_EXCERPT[h2].dst

\* C4: a build of a record whose Agreement is not yet in the graph attaches
\* to the Agreement exactly as many ContractClause nodes as the record has
\* clauses with exists = true, type by type, and creates no other
\* ContractClause node.
C4_ClauseNodesMatchPresent ==
    [][(IsBuildStep /\ AgreementIds(graph, lastData'[1].agreement.contract_id) = {}) =>
        LET a == lastData'[1].agreement
            n == Min(AgreementIds(graph', a.contract_id))
        IN /\ Len(ClausesOf(graph', n)) = Cardinality(PresentClauses(a))
           /\ \A t \in QueriedClauseTypes :
                Len(ClausesOfType(graph', n, t)) =
                  Cardinality({ k \in PresentClauses(a) : a.clauses[k].clause_type = t })
           /\ Len(graph'.ContractClause) =
                Len(graph.ContractClause) + Cardinality(PresentClauses(a))]_vars

\* C4 witness: the first build into the empty graph carried a present and an
\* absent clause, and one ContractClause node hangs on its Agreement.
C4_Witness ==
    /\ builds = 1
    /\ PresentClauses(lastData[1].agreement) # {}
    /\ PresentClauses(lastData[1].agreement) # DOMAIN lastData[1].agreement.clauses
    /\ Len(graph.HAS_CLAUSE) = 1

\* C5: no contract_id is returned both by get_contracts_with_clause_type(t)
\* and by get_contracts_without_clause(t).
C5_WithWithoutDisjoint ==
    \A t \in QueriedClauseTypes :
        ContractIdsOf(GetContractsWithClauseType(graph, t))
          \cap ContractIdsOf(GetContractsWithoutClause(graph, t)) = {}

\* C5 witness: for one clause type both operations return a contract.
C5_Witness ==
    \E t \in QueriedClauseTypes :
        /\ GetContractsWithClauseType(graph, t) # << >>
        /\ GetContractsWithoutClause(graph, t) # << >>

\* C6: the contract_ids returned by get_contracts_with_clause_type(t) and by
\* get_contracts_without_clause(t) together are the contract_ids of all
\* Agreement nodes.
C6_WithWithoutCoverAll ==
    \A t \in QueriedClauseTypes :
        ContractIdsOf(GetContractsWithClauseType(graph, t))
          \cup ContractIdsOf(GetContractsWithoutClause(graph, t)) = AllContractIds(graph)

\* C7: get_contract(id) returns the contract detail exactly when an
\* Agreement with that contract_id exists, and not-found only otherwise.
C7_GetContractFindsEveryAgreement ==
    \A id \in QueriedIds :
        (AgreementIds(graph, id) # {}) <=> ("contract_id" \in DOMAIN GetContract(graph, id))

\* C8: get_contract(id) for a positive id without an Agreement returns
\* {"error": "Contract <id> not found"} and raises nothing.
C8_MissingContractNotFound ==
    /\ \A id \in QueriedIds :
          AgreementIds(graph, id) = {} =>
             GetContract(graph, id) = [error |-> "Contract " \o ToString(id) \o " not found"]
    /\ AgreementIds(graph, 2) = {} =>
          GetContract(graph, 2) = [error |-> "Contract 2 not found"]

\* C8 witness: the graph holds an Agreement, and a lookup of another id
\* answers not found.
C8_Witness ==
    /\ AgreementIds(graph, 1) # {}
    /\ AgreementIds(graph, 2) = {}
    /\ GetContract(graph, 2) = [error |-> "Contract 2 not found"]

\* The step starts a backfill run.
IsStartStep == runs' = runs + 1

ElementIds(excerpts) == { excerpts[k].element_id : k \in DOMAIN excerpts }

\* C9 as claimed: a backfill run started after a completed run whose
\* embedding calls all succeeded, with no build in between, selects no
\* excerpt and changes nothing in the graph.
C9_SecondRunSelectsNothing ==
    [][(IsStartStep /\ runComplete /\ bf[MainWorker].embedFailed = {}) =>
          /\ bf'[MainWorker].excerpts = << >>
          /\ graph' = graph]_vars

\* C9 amended: a backfill run started after a completed run in which every
\* embedding call and every update succeeded, with no build in between,
\* selects no excerpt, ends at once and leaves the graph, and so every
\* embedding, as it was.
C9_SecondRunAfterCleanRunSelectsNothing ==
    [][(/\ IsStartStep
        /\ runComplete
        /\ bf[MainWorker].embedFailed = {}
        /\ bf[MainWorker].writeFailed = {}) =>
          /\ bf'[MainWorker].excerpts = << >>
          /\ bf'[MainWorker].pc = "idle"
          /\ graph' = graph]_vars

\* C9 witness: a second run has come back with an empty selection while
\* every Excerpt carries the embedding an earlier run wrote.
C9_Witness ==
    /\ runs >= 2
    /\ runComplete
    /\ bf[MainWorker].attempted = {}
    /\ graph.Excerpt # << >>
    /\ \A e \in DOMAIN graph.Excerpt : graph.Excerpt[e].embedding # Null

\* C10: a failed excerpt does not end the run (a run that has ended has gone
\* through every selected excerpt, and inside the loop through all before
\* position i); an excerpt that failed keeps a null embedding; and the next
\* run selects every excerpt that failed in the run before.
C10_FailureIsolatedAndRetried ==
    /\ [](\A w \in Workers :
            /\ bf[w].attempted =
                 { bf[w].excerpts[k].element_id :
                     k \in { j \in DOMAIN bf[w].excerpts :
                               bf[w].pc = "idle" \/ j < bf[w].i } }
            /\ \A e \in bf[w].embedFailed \cup bf[w].writeFailed :
                 graph.Excerpt[e].embedding = Null)
    /\ [][IsStartStep =>
            (bf[MainWorker].embedFailed \cup bf[MainWorker].writeFailed)
               \subseteq ElementIds(bf'[MainWorker].excerpts)]_vars

\* C10 witness: a run has ended in which one excerpt failed and a later one
\* of the selection was embedded.
C10_Witness ==
    LET b == bf[MainWorker] IN
    /\ b.pc = "idle"
    /\ \E j, k \in DOMAIN b.excerpts :
          /\ j < k
          /\ b.excerpts[j].element_id \in b.embedFailed \cup b.writeFailed
          /\ graph.Excerpt[b.excerpts[k].element_id].embedding # Null

\* The excerpts whose embedding the latest run of a worker has written.
WrittenInRun(b) == b.attempted \ (b.embedFailed \cup b.writeFailed)

\* C11: a backfill run that has ended reports as its number of generated
\* embeddings the number of excerpts whose embedding it has written (the
\* failed ones are not counted among them).
C11_ReportedCountIsWrittenCount ==
    \A w \in Workers :
        (bf[w].pc = "idle" /\ bf[w].excerpts # << >>) =>
            bf[w].reported = << Cardinality(WrittenInRun(bf[w])) >>

\* C12: with two backfill runs interleaved, every embedding a run writes goes
\* to an Excerpt whose embedding was null until then: no Excerpt is written
\* twice, and no vector written by one run is overwritten by the other.
C12_EmbeddingWrittenAtMostOnce ==
    [][\A w \in Workers :
          \A e \in WrittenInRun(bf'[w]) \ WrittenInRun(bf[w]) :
              graph.Excerpt[e].embedding = Null]_vars

\* The step is a call of create_indices.
IsIndexStep == indexRuns' = indexRuns + 1

DeclaredIndices == { INDICES[k] : k \in DOMAIN INDICES }

\* Names of the catalog.
Present(catalog) == { catalog[k] : k \in DOMAIN catalog }

\* C13: a call of create_indices checks every declared index by name and
\* issues the create statement for exactly the absent ones, in the order of
\* the list; on a store that holds every declared index it issues no create
\* statement, raises nothing and leaves the catalog as it is; and after any
\* call every declared index is in the catalog exactly once.
C13_CreateIndicesIdempotent ==
    /\ [][IsIndexStep =>
            /\ indexRun'.checked = INDICES
            /\ indexRun'.created =
                  SelectSeq(INDICES, LAMBDA n : n \notin Present(indexes))
            /\ ~indexRun'.raised
            /\ (DeclaredIndices \subseteq Present(indexes)) =>
                  (indexRun'.created = << >> /\ indexes' = indexes)]_vars
    /\ [](indexRuns > 0 =>
            \A n \in DeclaredIndices : Len(ShowIndexes(indexes, n)) = 1)

\* C13 witness: create_indices has run a second time, on a store that held
\* every declared index, and has issued no create statement.
C13_Witness ==
    /\ indexRuns = 2
    /\ indexRun.checked = INDICES
    /\ indexRun.created = << >>
    /\ Present(indexes) = DeclaredIndices

\* C14: get_contract and get_contract_excerpts called with an id <= 0
\* return {"error": "Contract ID must be positive"} and send no statement to
\* the graph store.
C14_NonPositiveIdIssuesNoQuery ==
    (call.op \in {"get_contract", "get_contract_excerpts"} /\ call.input.contract_id <= 0) =>
        /\ call.reply.raised = << >>
        /\ call.reply.value = [error |-> "Contract ID must be positive"]
        /\ call.reply.store = 0

\* C14 witness: get_contract_excerpts was called with id 0 on a store that
\* holds an Agreement, and has sent nothing to the store.
C14_Witness ==
    /\ call.op = "get_contract_excerpts"
    /\ call.input.contract_id = 0
    /\ call.reply.store = 0
    /\ graph.Agreement # << >>

\* C15: get_contracts_by_organization called with a name that is empty or
\* made of whitespace only returns the empty list and sends no statement to
\* the graph store.
C15_BlankOrganizationIssuesNoQuery ==
    ( /\ call.op = "get_contracts_by_organization"
      /\ \A k \in DOMAIN call.input.organization_name :
            call.input.organization_name[k] \in Whitespace ) =>
        /\ call.reply.raised = << >>
        /\ call.reply.value = << >>
        /\ call.reply.store = 0

\* C15 witness: the operation was called with the name " \t " on a store
\* that holds an Organization, and has sent nothing to the store.
C15_Witness ==
    /\ call.op = "get_contracts_by_organization"
    /\ call.input.organization_name = << " ", "\t", " " >>
    /\ call.reply.value = << >>
    /\ call.reply.store = 0
    /\ graph.Organization # << >>

\* C16: answer_aggregation_question raises nothing; when the language model
\* fails or the generated query is refused, it returns "No results found.".
C16_TranslationFailureDegrades ==
    call.op = "answer_aggregation_question" =>
        /\ call.reply.raised = << >>
        /\ call.input.kind # "ok" => call.reply.value = "No results found."

\* C17: when the generated query runs, answer_aggregation_question returns
\* the texts of all rows in the order of the rows, with a blank line after
\* each, and exactly "No results found." when there is no row.
C17_AnswerListsRowsInOrder ==
    (call.op = "answer_aggregation_question" /\ call.input.kind = "ok") =>
        LET rows == call.input.rows IN
        /\ call.reply.raised = << >>
        /\ Len(rows) = 0 => call.reply.value = "No results found."
        /\ Len(rows) = 1 => call.reply.value = rows[1] \o "\n\n"
        /\ Len(rows) = 2 => call.reply.value = rows[1] \o "\n\n" \o rows[2] \o "\n\n"
        /\ Len(rows) = 3 =>
              call.reply.value =
                 rows[1] \o "\n\n" \o rows[2] \o "\n\n" \o rows[3] \o "\n\n"
        /\ Len(rows) <= 3

\* C17 witness: the query returned two different rows and the answer lists
\* them in their order.
C17_Witness ==
    /\ call.op = "answer_aggregation_question"
    /\ call.input.kind = "ok"
    /\ call.input.rows = << "<Record n=2>", "<Record n=1>" >>
    /\ call.reply.value = "<Record n=2>\n\n<Record n=1>\n\n"

\* C18: when the embedding call of get_contracts_similar_text fails, the
\* operation raises; it returns no list and sends nothing to the store.
C18_EmbeddingFailurePropagates ==
    ( /\ call.op = "get_contracts_similar_text"
      /\ call.reply.embed = 1
      /\ call.input.outcome = "embedding_failed" ) =>
        /\ call.reply.raised # << >>
        /\ call.reply.store = 0

\* C18 witness: the embedding call failed for a non-empty text on a store
\* with embedded excerpts, and the operation raised.
C18_Witness ==
    /\ call.op = "get_contracts_similar_text"
    /\ call.input.clause_text # ""
    /\ call.input.outcome = "embedding_failed"
    /\ call.reply.raised = << "EmbeddingsGenerationError" >>
    /\ \E e \in DOMAIN graph.Excerpt : graph.Excerpt[e].embedding # Null

\* C19: get_contracts_similar_text called with an empty clause_text is
\* refused without a call of the embedding capability and without a
\* statement sent to the graph store.
C19_EmptyTextRejected ==
    (call.op = "get_contracts_similar_text" /\ call.input.clause_text = "") =>
        /\ call.reply.raised # << >>
        /\ call.reply.embed = 0
        /\ call.reply.store = 0

\* C20: a build statement that fails does not end the script: the script
\* has a next step until it is through the loop, create_indices and the
\* backfill; the build statement is executed for every record of the batch,
\* in their order, whatever failed before; and create_indices and then the
\* backfill run after the loop.
C20_BuildFailureDoesNotAbortBatch ==
    /\ (main.batch # << >> /\ ~MainDone) => ENABLED NextIngest
    /\ main.pc = "build" => main.executed = [k \in 1..(main.i - 1) |-> k]
    /\ main.pc = "built" => main.executed = [k \in 1..Len(main.batch) |-> k]
    /\ main.failed \subseteq { main.executed[k] : k \in DOMAIN main.executed }
    /\ indexRuns > 0 => main.pc = "built"
    /\ runs > 0 => indexRuns > 0

\* C20 witness: the build statement of the first of two records failed, the
\* second record is in the graph, the indices exist and the backfill has
\* embedded its excerpt.
C20_Witness ==
    /\ MainDone
    /\ Len(main.batch) = 2
    /\ main.failed = {1}
    /\ AgreementIds(graph, 1) = {}
    /\ AgreementIds(graph, 2) # {}
    /\ Present(indexes) = DeclaredIndices
    /\ \E e \in DOMAIN graph.Excerpt : graph.Excerpt[e].embedding # Null

\* The build statement of record k of the batch raises whenever it runs.
IsMalformed(data) ==
    \/ data.agreement.governing_law.country = None
    \/ \E k \in DOMAIN data.agreement.parties :
          \/ data.agreement.parties[k].name = None
          \/ data.agreement.parties[k].incorporation_country = None

\* C21: a step in which the build statement of a record fails leaves the
\* graph as it was, node for node and relationship for relationship; a
\* record with a missing party name or incorporation country always fails;
\* and a statement that does not fail does what the build statement does.
C21_FailedBuildLeavesGraph ==
    [][main'.failed # main.failed =>
          /\ graph' = graph
          /\ Counts(graph') = Counts(graph)]_vars
    /\ [][(main.pc = "build" /\ main'.executed # main.executed) =>
            /\ IsMalformed(main.batch[main.i]) => main.i \in main'.failed
            /\ main.i \notin main'.failed =>
                  graph' = CreateGraphQuery(graph, main.batch[main.i])]_vars

\* C21 witness: the first record was built, the second, whose party has no
\* incorporation country, failed, and the graph holds neither its Agreement
\* nor its Organization.
C21_Witness ==
    /\ main.pc = "built"
    /\ main.failed = {2}
    /\ Len(main.batch) = 2
    /\ main.batch[2].agreement.parties[1].incorporation_country = None
    /\ AgreementIds(graph, 1) # {}
    /\ AgreementIds(graph, 2) = {}
    /\ OrganizationIds(graph, main.batch[2].agreement.parties[1].name) = {}
    /\ Len(graph.IS_PARTY_TO) = Len(main.batch[1].agreement.parties)

\* C22: every load gives the files it loads pairwise different contract_ids,
\* and a file that was given a contract_id by one load is given the same
\* contract_id by the next load, whatever files were added in between.
C22_ContractIdStable ==
    [][input'.loads = input.loads + 1 =>
          /\ \A n1, n2 \in DOMAIN input'.assigned :
                input'.assigned[n1] = input'.assigned[n2] => n1 = n2
          /\ \A n \in DOMAIN input.assigned \cap DOMAIN input'.assigned :
                input'.assigned[n] = input.assigned[n]]_vars

\* C23: between an Agreement and a Country there is at most one
\* GOVERNED_BY_LAW relationship, between an Organization and an Agreement at
\* most one IS_PARTY_TO relationship, and between an Organization and a
\* Country at most one INCORPORATED_IN relationship.
C23_OneRelationshipPerPair ==
    \A t \in {"GOVERNED_BY_LAW", "IS_PARTY_TO", "INCORPORATED_IN"} :
        \A i, j \in DOMAIN graph[t] :
            (graph[t][i].src = graph[t][j].src /\ graph[t][i].dst = graph[t][j].dst)
               => i = j

\* C23 witness: two builds have named the same Agreement and Country, the
\* same Organization and Agreement, and the same Organization and Country,
\* and each pair is joined once.
C23_Witness ==
    /\ builds = 2
    /\ Len(graph.Agreement) = 1
    /\ lastData[1].agreement.parties # << >>
    /\ Len(graph.GOVERNED_BY_LAW) = 1
    /\ Len(graph.IS_PARTY_TO) = Len(lastData[1].agreement.parties)
    /\ Len(graph.INCORPORATED_IN) = Len(lastData[1].agreement.parties)

\* C24: the graph holds at most one Organization node of a name, at most
\* one Country node of a name and at most one ClauseType node of a name;
\* every party relationship of an organization name starts at that one
\* node, and every clause is linked to the one ClauseType node of its type.
C24_OneNodePerName ==
    /\ \A i, j \in DOMAIN graph.Organization :
          graph.Organization[i].name = graph.Organization[j].name => i = j
    /\ \A i, j \in DOMAIN graph.Country :
          graph.Country[i].name = graph.Country[j].name => i = j
    /\ \A i, j \in DOMAIN graph.ClauseType :
          graph.ClauseType[i].name = graph.ClauseType[j].name => i = j
    /\ \A cl \in DOMAIN graph.ContractClause :
          \E h \in DOMAIN graph.HAS_TYPE :
             /\ graph.HAS_TYPE[h].src = cl
             /\ graph.ClauseType[graph.HAS_TYPE[h].dst].name = graph.ContractClause[cl].type

\* C24 witness: two contracts name the party "Acme Corp", are governed by
\* or incorporated in "USA" and carry an Insurance clause each; there is one
\* Organization node of that name, party to both, and one ClauseType node
\* for the two clauses.
C24_Witness ==
    /\ Len(graph.Agreement) = 2
    /\ Cardinality(OrganizationIds(graph, "Acme Corp")) = 1
    /\ Cardinality({ graph.IS_PARTY_TO[k].dst :
                       k \in { r \in DOMAIN graph.IS_PARTY_TO :
                                 graph.IS_PARTY_TO[r].src
                                    \in OrganizationIds(graph, "Acme Corp") } }) = 2
    /\ Cardinality(CountryIds(graph, "USA")) = 1
    /\ Len(graph.ContractClause) = 2
    /\ Len(graph.ClauseType) = 1

\* The set of the entries of a sequence.
Range(seq) == { seq[k] : k \in DOMAIN seq }

\* C25: after one build into the empty graph of a record with contract_id 1,
\* at least one party and at least one present clause, get_contract(1)
\* returns the name of the record, as many parties as the record has, each
\* with the name and the role of the record, and the clause types of the
\* present clauses and no other; for every type t of a present clause
\* get_contracts_with_clause_type(t) holds contract 1 and
\* get_contracts_without_clause(t) does not.
C25_BuildThenRead ==
    ( /\ builds = 1
      /\ lastData[1].agreement.contract_id = 1
      /\ lastData[1].agreement.parties # << >>
      /\ PresentClauses(lastData[1].agreement) # {} ) =>
        LET a == lastData[1].agreement
            got == GetContract(graph, 1)
        IN /\ DOMAIN got # {"error"}
           /\ got.contract_id = 1
           /\ got.name = a.agreement_name
           /\ Len(got.parties) = Len(a.parties)
           /\ { [name |-> got.parties[k].name, role |-> got.parties[k].role] :
                   k \in DOMAIN got.parties }
                = { [name |-> a.parties[k].name, role |-> a.parties[k].role] :
                      k \in DOMAIN a.parties }
           /\ { got.clauses[k].clause_type : k \in DOMAIN got.clauses }
                = { a.clauses[k].clause_type : k \in PresentClauses(a) }
           /\ Len(got.clauses) = Cardinality(PresentClauses(a))
           /\ \A k \in PresentClauses(a) :
                 /\ 1 \in ContractIdsOf(
                            GetContractsWithClauseType(graph, a.clauses[k].clause_type))
                 /\ 1 \notin ContractIdsOf(
                               GetContractsWithoutClause(graph, a.clauses[k].clause_type))

\* C25 witness: the record "MSA-001" with the party "Acme Corp" as Vendor, a
\* present Insurance clause and an absent Non-Compete clause was built as
\* contract 1, and get_contract(1) returns one party and one clause.
C25_Witness ==
    /\ builds = 1
    /\ lastData[1] = Record(1, 1, InsuranceClauses)
    /\ GetContract(graph, 1).name = "MSA-001"
    /\ Len(GetContract(graph, 1).parties) = 2
    /\ GetContract(graph, 1).parties[1].role = "Vendor"
    /\ GetContract(graph, 1).parties[2].name = "Beta LLC"
    /\ Len(GetContract(graph, 1).clauses) = 1
    /\ GetContract(graph, 1).clauses[1].clause_type = "Insurance"
    /\ 1 \in ContractIdsOf(GetContractsWithClauseType(graph, "Insurance"))
    /\ 1 \notin ContractIdsOf(GetContractsWithoutClause(graph, "Insurance"))

\* A node or relationship without its embedding.
WithoutEmbedding(x) ==
    IF "embedding" \in DOMAIN x THEN [x EXCEPT !.embedding = Null] ELSE x

\* C26: no step removes a node or a relationship, and no step changes a
\* property of a node or relationship that exists, the embedding of an
\* Excerpt apart: the role of an IS_PARTY_TO and the state of an
\* INCORPORATED_IN or GOVERNED_BY_LAW relationship stay as they were created
\* when a later record names the same pair.
C26_OnlyEmbeddingMutates ==
    [][\A t \in NodeLabels \cup RelTypes :
         \A i \in DOMAIN graph[t] :
            /\ i \in DOMAIN graph'[t]
            /\ WithoutEmbedding(graph'[t][i]) = WithoutEmbedding(graph[t][i])]_vars

\* C27: the facade has seven operations, and what each of them returns is
\* the JSON text of the result of the service operation;
\* answer_aggregation_question is one of them.
C27_ToolsReturnJson ==
    /\ Cardinality(ToolNames) = 7
    /\ call.op \in ToolNames \cup {"none"}
    /\ (call.op \in ToolNames /\ call.tool.raised = << >>) =>
          /\ call.tool.out.json
          /\ call.tool.out = JsonDumps(call.reply.value)

\* Every record of the batch has had its build statement executed.
AllAttempted == main.executed = [k \in 1..Len(main.batch) |-> k]

\* C28: in a run of the script, build statements are executed only while
\* neither create_indices nor the backfill has begun; create_indices runs
\* only when every record has been attempted and before the backfill; the
\* backfill starts only when create_indices is through and every declared
\* index exists; and an embedding is written only after all of that.
C28_BuildThenIndicesThenBackfill ==
    /\ [][main'.executed # main.executed => (indexRuns = 0 /\ runs = 0)]_vars
    /\ [][IsIndexStep => (AllAttempted /\ main.pc = "built" /\ runs = 0)]_vars
    /\ [][IsStartStep =>
            /\ AllAttempted
            /\ indexRuns = 1
            /\ indexRun.checked = INDICES
            /\ DeclaredIndices \subseteq Present(indexes)]_vars
    /\ [](\A e \in DOMAIN graph.Excerpt :
            graph.Excerpt[e].embedding # Null =>
               (AllAttempted /\ main.pc = "built" /\ indexRuns = 1 /\ runs = 1))

\* C28 witness: a run over two records is through: both were built, the six
\* indices were created by this run, and the backfill has embedded the
\* excerpts of both.
C28_Witness ==
    /\ MainDone
    /\ Len(main.batch) = 2
    /\ main.failed = {}
    /\ indexRun.created = INDICES
    /\ Len(graph.Excerpt) = 2
    /\ \A e \in DOMAIN graph.Excerpt : graph.Excerpt[e].embedding # Null

\* The excerpt texts attached to the clauses of type t of Agreement a.
TextsOfType(g, a, t) ==
    { g.Excerpt[g.HAS_EXCERPT[h].dst].text :
        h \in { k \in DOMAIN g.HAS_EXCERPT :
                  g.HAS_EXCERPT[k].src \in Range(ClausesOfType(g, a, t)) } }

\* C29: for the contract_id of an Agreement with at least one clause,
\* get_contract_excerpts returns the contract with one entry per clause
\* type of the Agreement, each holding the excerpt texts attached to the
\* clauses of that type; this also when a clause has no excerpt.
C29_ExcerptsGroupedByClauseType ==
    \A id \in QueriedIds :
      \A a \in AgreementIds(graph, id) :
        ClausesOf(graph, a) # << >> =>
          LET got == GetContractExcerptsCall(graph, id).value
              types == { graph.ContractClause[cc].type : cc \in Range(ClausesOf(graph, a)) }
          IN /\ DOMAIN got # {"error"}
             /\ got.contract_id = id
             /\ Len(got.clauses) = Cardinality(types)
             /\ { got.clauses[k].clause_type : k \in DOMAIN got.clauses } = types
             /\ \A k \in DOMAIN got.clauses :
                   Range(got.clauses[k].excerpts)
                      = TextsOfType(graph, a, got.clauses[k].clause_type)

\* In a list of result entries every contract_id occurs once, and the
\* parties of an entry are the organizations that are party to its Agreement,
\* each named once.
EntriesWellFormed(g, entries) ==
    /\ \A j, k \in DOMAIN entries :
          entries[j].contract_id = entries[k].contract_id => j = k
    /\ \A k \in DOMAIN entries :
          \A a \in AgreementIds(g, entries[k].contract_id) :
            LET orgs == { g.IS_PARTY_TO[r].src :
                            r \in { i \in DOMAIN g.IS_PARTY_TO : g.IS_PARTY_TO[i].dst = a } }
            IN /\ Len(entries[k].parties) = Cardinality(orgs)
               /\ { entries[k].parties[p].name : p \in DOMAIN entries[k].parties }
                    = { g.Organization[o].name : o \in orgs }

\* C30: in the results of get_contract, get_contracts_by_organization,
\* get_contracts_with_clause_type and get_contracts_without_clause every
\* contract_id is in one entry at most, and the parties list of an entry
\* names each Organization that is party to the Agreement exactly once.
C30_NoDuplicateEntriesOrParties ==
    /\ \A id \in QueriedIds :
          "contract_id" \in DOMAIN GetContract(graph, id) =>
             EntriesWellFormed(graph, << GetContract(graph, id) >>)
    /\ \A o \in DOMAIN graph.Organization :
          EntriesWellFormed(graph, ContractsOfOrganization(graph, o))
    /\ \A t \in QueriedClauseTypes :
          /\ EntriesWellFormed(graph, GetContractsWithClauseType(graph, t))
          /\ EntriesWellFormed(graph, GetContractsWithoutClause(graph, t))

====
